---- MODULE Spec2Model ----
(***************************************************************************)
(* Model of the paella-player presentation shell.                          *)
(*                                                                         *)
(*   src/app/components/player/index.tsx   Player, delayTill               *)
(*   src/app/components/player/Paella.tsx  PaellaPlayer,                   *)
(*                                         timeStringToSeconds             *)
(*                                                                         *)
(* Times are milliseconds since the epoch (Date.getTime()).  A JavaScript  *)
(* number holds every integer up to 2^53 exactly, while the model          *)
(* checker's integers stop at 2^31-1, which is exactly the timer limit the *)
(* code clamps to.  A millisecond count is therefore kept as a pair        *)
(* <<hi, lo>> standing for hi * Base + lo with 0 <= lo < Base, and the     *)
(* arithmetic on pairs is exact.  A null timestamp is the value Null.  The *)
(* tri-state flags hasStarted and hasEnded are the strings "true",         *)
(* "false" and "unknown".                                                  *)
(***************************************************************************)
EXTENDS Integers, Sequences, FiniteSets, TLC

VARIABLES
    \* ---- Player (index.tsx) ----
    now,                \* Date.now()
    pc,                 \* "unmounted" | "rendered" (effect not yet flushed) | "idle"
    event,              \* the event prop of the latest render
    hasStarted,         \* captured by the latest render
    hasEnded,           \* captured by the latest render
    view,               \* what the latest render returned
    timers,             \* pending setTimeout entries: [id, kind, due]
    handles,            \* the handles array of the latest effect
    nextHandle,         \* next id setTimeout hands out
    renders,            \* number of renders so far
    rerenderRequested,  \* rerender() called and no render since
    notified,           \* number of onEventStateChange invocations (this mount)
    transitions,        \* number of renders that changed the boundary state (this mount)
    unchanged,          \* the latest render saw the same event and flags as the one before
    \* ---- PaellaPlayer (Paella.tsx) ----
    ppc,                \* "unmounted" | "idle" | "cleaned" (cleanup ran, effect re-runs next)
    paella,             \* paella.current: an engine id, or NoEngine
    cleanupFor,         \* paellaSnapshot of the latest effect's cleanup, or NoEngine
    load,               \* engine id -> state of its loadPromise
    scheduled,          \* engine id -> number of loadPromise.then(unload) registrations
    unloaded,           \* engine id -> number of player.unload() calls
    nextEngine,         \* id of the next engine instance constructed
    \* ---- pure functions, one call each ----
    purePc,             \* "idle" | "ready" (arguments chosen) | "done" (result returned)
    timeString,         \* timeStringToSeconds: argument, a sequence of characters
    seconds,            \* timeStringToSeconds: result
    tillDate,           \* delayTill: argument, date.getTime()
    tillNow,            \* delayTill: Date.now() during the call
    tillDelay,          \* delayTill: result
    duration,           \* PaellaPlayer: duration prop, in thousandths of a second
    startTime,          \* PaellaPlayer: startTime prop as new Date(..).getTime(), or Null
    endTime,            \* PaellaPlayer: endTime prop as new Date(..).getTime(), or Null
    fixedDuration,      \* PaellaPlayer: manifest duration, in thousandths of a second
    srcTracks,          \* tracksToPaellaSources: argument tracks, the tracks of one kind
    srcIsLive,          \* tracksToPaellaSources: argument isLive
    sources             \* tracksToPaellaSources: result, key -> list of sources

playerVars == <<now, pc, event, hasStarted, hasEnded, view, timers, handles,
                nextHandle, renders, rerenderRequested, notified, transitions,
                unchanged>>

paellaVars == <<ppc, paella, cleanupFor, load, scheduled, unloaded, nextEngine>>

pureVars == <<purePc, timeString, seconds, tillDate, tillNow, tillDelay, duration,
              startTime, endTime, fixedDuration, srcTracks, srcIsLive, sources>>

vars == <<playerVars, paellaVars, pureVars>>

-----------------------------------------------------------------------------
(* Values *)

Null == <<>>

Base == 1000 * 1000

\* The number hi * Base + lo, normalised.
Norm(hi, lo) == <<hi + (lo \div Base), lo % Base>>

\* A number of milliseconds below 2^31.
Ms(n) == Norm(0, n)

Plus(a, b) == Norm(a[1] + b[1], a[2] + b[2])

Minus(a, b) == Norm(a[1] - b[1], a[2] - b[2])

Leq(a, b) == a[1] < b[1] \/ (a[1] = b[1] /\ a[2] <= b[2])

Less(a, b) == Leq(a, b) /\ a # b

Zero == Ms(0)

GraceMs == 500

MaxTimeout == 2147483647

\* Bound on the number of renders of Player in one behaviour.
MaxRenders == 4

StartTimes == {Null, Ms(1000), Norm(3000, 0)}

EndTimes == {Null, Ms(1000), Ms(2000), Norm(3000, 1000)}

Events == [isLive : BOOLEAN, startTime : StartTimes, endTime : EndTimes]

\* The value of `event` before the first render.
NoEvent == [isLive |-> FALSE, startTime |-> Null, endTime |-> Null]

TimePoints == {Ms(1000), Ms(2000), Norm(3000, 0)}

Min(a, b) == IF Leq(a, b) THEN a ELSE b

Max(a, b) == IF Leq(b, a) THEN a ELSE b

-----------------------------------------------------------------------------
(* Time-window evaluator *)

TriState(date, dateNow) ==
    IF date = Null THEN "unknown"
    ELSE IF Leq(date, dateNow) THEN "true" ELSE "false"

getEventTimeInfo(e, dateNow) ==
    [startTime  |-> e.startTime,
     endTime    |-> e.endTime,
     hasStarted |-> TriState(e.startTime, dateNow),
     hasEnded   |-> TriState(e.endTime, dateNow)]

\* delayTill without the clamp to the timer limit.
delayTill_NoClamp(date, dateNow) ==
    Plus(Minus(date, dateNow), Ms(GraceMs))

delayTill(date, dateNow) ==
    LET raw == Plus(Minus(date, dateNow), Ms(GraceMs))
    IN  Min(raw, Ms(MaxTimeout))

\* setTimeout(handler, delay): a delay below 0 is treated as 0.
setTimeout(id, kind, delay, dateNow) ==
    [id |-> id, kind |-> kind, due |-> Plus(dateNow, Max(Zero, delay))]

-----------------------------------------------------------------------------
(* Player *)

\* The render branch without the test of isLive.
RenderBranch_IgnoreLive(e, hs, he) ==
    IF hs = "false" \/ he = "true"
    THEN IF hs = "false" THEN "pending" ELSE "ended"
    ELSE "player"

RenderBranch(e, hs, he) ==
    IF e.isLive /\ (hs = "false" \/ he = "true")
    THEN IF hs = "false" THEN "pending" ELSE "ended"
    ELSE "player"

\* The boundary state of an event at a given time.
BoundaryState(e, dateNow) ==
    LET info == getEventTimeInfo(e, dateNow)
    IN  RenderBranch(e, info.hasStarted, info.hasEnded)

SchedulesStart(e, hs) == e.isLive /\ hs = "false"

\* The end-timer condition without the test of isLive.
SchedulesEnd_IgnoreLive(e, he) == he = "false"

SchedulesEnd(e, he) == e.isLive /\ he = "false"

\* The timers the effect body schedules, first handle id `first`.
EffectTimers(e, hs, he, dateNow, first) ==
    LET s  == SchedulesStart(e, hs)
        n  == SchedulesEnd(e, he)
        st == IF s THEN <<setTimeout(first, "start",
                                     delayTill(e.startTime, dateNow), dateNow)>>
              ELSE <<>>
        en == IF n THEN <<setTimeout(first + Len(st), "end",
                                     delayTill(e.endTime, dateNow), dateNow)>>
              ELSE <<>>
    IN  st \o en

\* A cleanup that clears nothing.
ClearTimeouts_None(ts, hdl) == ts

\* handles.forEach(clearTimeout)
ClearTimeouts(ts, hdl) ==
    {t \in ts : \A i \in 1..Len(hdl) : hdl[i] # t.id}

PlayerInit ==
    /\ now = Zero
    /\ pc = "unmounted"
    /\ event = NoEvent
    /\ hasStarted = "unknown"
    /\ hasEnded = "unknown"
    /\ view = "none"
    /\ timers = {}
    /\ handles = <<>>
    /\ nextHandle = 1
    /\ renders = 0
    /\ rerenderRequested = FALSE
    /\ notified = 0
    /\ transitions = 0
    /\ unchanged = FALSE

\* The function component body: first render (mount) or a re-render, with the
\* same or a new event object.
Render(e) ==
    /\ pc \in {"unmounted", "idle"}
    /\ renders < MaxRenders
    /\ renders' = renders + 1
    /\ LET info == getEventTimeInfo(e, now)
       IN  /\ hasStarted' = info.hasStarted
           /\ hasEnded' = info.hasEnded
           /\ view' = RenderBranch(e, info.hasStarted, info.hasEnded)
           /\ transitions' =
                  IF pc = "unmounted" THEN 0
                  ELSE IF RenderBranch(e, info.hasStarted, info.hasEnded) # view
                       THEN transitions + 1
                       ELSE transitions
           /\ unchanged' = (/\ pc = "idle"
                            /\ e = event
                            /\ info.hasStarted = hasStarted
                            /\ info.hasEnded = hasEnded)
    /\ event' = e
    /\ pc' = "rendered"
    /\ rerenderRequested' = FALSE
    /\ notified' = IF pc = "unmounted" THEN 0 ELSE notified
    /\ UNCHANGED <<now, timers, handles, nextHandle>>
    /\ UNCHANGED <<paellaVars, pureVars>>

\* The passive effect of the latest render: the previous effect's cleanup,
\* then the effect body.
RunEffect ==
    /\ pc = "rendered"
    /\ LET new == EffectTimers(event, hasStarted, hasEnded, now, nextHandle)
       IN  /\ timers' = ClearTimeouts(timers, handles)
                            \cup {new[i] : i \in 1..Len(new)}
           /\ handles' = [i \in 1..Len(new) |-> new[i].id]
           /\ nextHandle' = nextHandle + Len(new)
    /\ pc' = "idle"
    /\ UNCHANGED <<now, event, hasStarted, hasEnded, view, renders,
                   rerenderRequested, notified, transitions, unchanged>>
    /\ UNCHANGED <<paellaVars, pureVars>>

\* A due timer runs `handler`.
FireTimer(t) ==
    /\ t \in timers
    /\ Leq(t.due, now)
    /\ timers' = timers \ {t}
    /\ rerenderRequested' = TRUE
    /\ notified' = notified + 1
    /\ UNCHANGED <<now, pc, event, hasStarted, hasEnded, view, handles,
                   nextHandle, renders, transitions, unchanged>>
    /\ UNCHANGED <<paellaVars, pureVars>>

\* Unmount runs the cleanup of the latest effect.
Unmount ==
    /\ pc = "idle"
    /\ timers' = ClearTimeouts(timers, handles)
    /\ handles' = <<>>
    /\ pc' = "unmounted"
    /\ view' = "none"
    /\ rerenderRequested' = FALSE
    /\ UNCHANGED <<now, event, hasStarted, hasEnded, nextHandle, renders,
                   notified, transitions, unchanged>>
    /\ UNCHANGED <<paellaVars, pureVars>>

\* Time passes, up to the next pending timer's due time.
AdvanceTime(t) ==
    /\ pc \in {"idle", "unmounted"}
    /\ Less(now, t)
    /\ \A x \in timers : Leq(t, x.due)
    /\ now' = t
    /\ UNCHANGED <<pc, event, hasStarted, hasEnded, view, timers, handles,
                   nextHandle, renders, rerenderRequested, notified, transitions,
                   unchanged>>
    /\ UNCHANGED <<paellaVars, pureVars>>

PlayerNext ==
    \/ \E e \in Events : Render(e)
    \/ RunEffect
    \/ \E t \in timers : FireTimer(t)
    \/ Unmount
    \/ \E t \in TimePoints \cup {x.due : x \in timers} : AdvanceTime(t)

-----------------------------------------------------------------------------
(* PaellaPlayer: the engine instance held in the shared slot paella.current *)

NoEngine == 0

\* Bound on the number of engine instances constructed in one behaviour.
MaxEngines == 3

Engines == 1..MaxEngines

PaellaInit ==
    /\ ppc = "unmounted"
    /\ paella = NoEngine
    /\ cleanupFor = NoEngine
    /\ load = [i \in Engines |-> "none"]
    /\ scheduled = [i \in Engines |-> 0]
    /\ unloaded = [i \in Engines |-> 0]
    /\ nextEngine = 1

\* The effect body.  refCurrent is whether ref.current is set.
EffectBody(refCurrent) ==
    IF ~refCurrent
    THEN \* early return: nothing constructed, no cleanup registered
         /\ cleanupFor' = NoEngine
         /\ UNCHANGED <<paella, load, nextEngine>>
    ELSE IF paella = NoEngine
    THEN \* new Paella(...), loadSkin().then(loadManifest), paella.current = ...
         /\ nextEngine <= MaxEngines
         /\ load' = [load EXCEPT ![nextEngine] = "pending"]
         /\ paella' = nextEngine
         /\ cleanupFor' = nextEngine
         /\ nextEngine' = nextEngine + 1
    ELSE /\ cleanupFor' = paella
         /\ UNCHANGED <<paella, load, nextEngine>>

\* Variants of the cleanup with a plausible slip each.
Cleanup_SyncUnload(snap) ==
    [paella    |-> NoEngine,
     scheduled |-> scheduled,
     unloaded  |-> [unloaded EXCEPT ![snap] = @ + 1]]

Cleanup_NoUnload(snap) ==
    [paella    |-> NoEngine,
     scheduled |-> scheduled,
     unloaded  |-> unloaded]

Cleanup_KeepSlot(snap) ==
    [paella    |-> paella,
     scheduled |-> [scheduled EXCEPT ![snap] = @ + 1],
     unloaded  |-> unloaded]

\* The cleanup the effect returned, for paellaSnapshot = snap: what it makes
\* of the slot, of the registered unload reactions and of the unload calls.
Cleanup(snap) ==
    [paella    |-> NoEngine,
     scheduled |-> [scheduled EXCEPT ![snap] = @ + 1],
     unloaded  |-> unloaded]

RunCleanup ==
    IF cleanupFor = NoEngine
    THEN UNCHANGED <<paella, scheduled, unloaded>>
    ELSE LET c == Cleanup(cleanupFor)
         IN  /\ paella' = c.paella
             /\ scheduled' = c.scheduled
             /\ unloaded' = c.unloaded

PMount(refCurrent) ==
    /\ ppc = "unmounted"
    /\ EffectBody(refCurrent)
    /\ ppc' = "idle"
    /\ UNCHANGED <<scheduled, unloaded>>
    /\ UNCHANGED <<playerVars, pureVars>>

\* A dependency changed: the previous effect's cleanup runs ...
PCleanup ==
    /\ ppc = "idle"
    /\ RunCleanup
    /\ ppc' = "cleaned"
    /\ cleanupFor' = NoEngine
    /\ UNCHANGED <<load, nextEngine>>
    /\ UNCHANGED <<playerVars, pureVars>>

\* ... and the effect body runs again, in the same synchronous flush.
PEffect(refCurrent) ==
    /\ ppc = "cleaned"
    /\ EffectBody(refCurrent)
    /\ ppc' = "idle"
    /\ UNCHANGED <<scheduled, unloaded>>
    /\ UNCHANGED <<playerVars, pureVars>>

PUnmount ==
    /\ ppc = "idle"
    /\ RunCleanup
    /\ ppc' = "unmounted"
    /\ cleanupFor' = NoEngine
    /\ UNCHANGED <<load, nextEngine>>
    /\ UNCHANGED <<playerVars, pureVars>>

\* The engine's load sequence settles: loadPromise is fulfilled or rejected.
LoadSettles(i, outcome) ==
    /\ ppc # "cleaned"
    /\ load[i] = "pending"
    /\ load' = [load EXCEPT ![i] = outcome]
    /\ UNCHANGED <<ppc, paella, cleanupFor, scheduled, unloaded, nextEngine>>
    /\ UNCHANGED <<playerVars, pureVars>>

\* A reaction registered by a cleanup runs once loadPromise is fulfilled:
\* paellaSnapshot.player.unload().  A rejected loadPromise runs none.
RunReaction(i) ==
    /\ ppc # "cleaned"
    /\ load[i] = "resolved"
    /\ unloaded[i] < scheduled[i]
    /\ unloaded' = [unloaded EXCEPT ![i] = @ + 1]
    /\ UNCHANGED <<ppc, paella, cleanupFor, load, scheduled, nextEngine>>
    /\ UNCHANGED <<playerVars, pureVars>>

PaellaNext ==
    \/ \E r \in BOOLEAN : PMount(r)
    \/ PCleanup
    \/ \E r \in BOOLEAN : PEffect(r)
    \/ PUnmount
    \/ \E i \in Engines, o \in {"resolved", "rejected"} : LoadSettles(i, o)
    \/ \E i \in Engines : RunReaction(i)

-----------------------------------------------------------------------------
(* timeStringToSeconds *)

\* Bound on the length of a time string.
MaxLen == 4

Alphabet == {"1", "2", "h", "m", "s", "x"}

TimeStrings == UNION {[1..n -> Alphabet] : n \in 0..MaxLen}

Digits == {"0", "1", "2", "3", "4", "5", "6", "7", "8", "9"}

DigitValue(c) ==
    CASE c = "0" -> 0 [] c = "1" -> 1 [] c = "2" -> 2 [] c = "3" -> 3
      [] c = "4" -> 4 [] c = "5" -> 5 [] c = "6" -> 6 [] c = "7" -> 7
      [] c = "8" -> 8 [] c = "9" -> 9

\* parseInt of a string of decimal digits.
RECURSIVE parseInt(_)
parseInt(str) ==
    IF str = <<>> THEN 0
    ELSE 10 * parseInt(SubSeq(str, 1, Len(str) - 1)) + DigitValue(str[Len(str)])

\* The length of the longest run of digits of str from position pos: what a
\* greedy \d+ takes there.
RECURSIVE DigitRun(_, _)
DigitRun(str, pos) ==
    IF pos <= Len(str) /\ str[pos] \in Digits
    THEN 1 + DigitRun(str, pos + 1)
    ELSE 0

\* The optional group ((\d+)<unit>)? tried at position pos: the digits it
\* captured (<<>> when the group took no part in the match) and where the
\* match goes on.  Giving back digits never helps: the character after a
\* shorter run is a digit, not the unit.
OptionalGroup(str, pos, unit) ==
    LET n == DigitRun(str, pos)
    IN  IF n >= 1 /\ pos + n <= Len(str) /\ str[pos + n] = unit
        THEN [capture |-> SubSeq(str, pos, pos + n - 1), next |-> pos + n + 1]
        ELSE [capture |-> <<>>, next |-> pos]

\* /((\d+)h)?((\d+)m)?((\d+)s)?/.exec(str): the pattern matches at index 0 of
\* every string (all three groups are optional), so exec never returns null.
RegExpExec(str) ==
    LET h == OptionalGroup(str, 1, "h")
        m == OptionalGroup(str, h.next, "m")
        sec == OptionalGroup(str, m.next, "s")
    IN  [g2 |-> h.capture, g4 |-> m.capture, g6 |-> sec.capture]

timeStringToSeconds(str) ==
    LET timeSplit == RegExpExec(str)
        hours   == IF timeSplit.g2 # <<>> THEN parseInt(timeSplit.g2) * 60 * 60 ELSE 0
        minutes == IF timeSplit.g4 # <<>> THEN parseInt(timeSplit.g4) * 60 ELSE 0
        secs    == IF timeSplit.g6 # <<>> THEN parseInt(timeSplit.g6) ELSE 0
    IN  hours + minutes + secs

TimeIdle == timeString = <<>> /\ seconds = 0

CallTimeStringToSeconds ==
    /\ purePc = "ready"
    /\ seconds' = timeStringToSeconds(timeString)
    /\ purePc' = "done"
    /\ UNCHANGED <<timeString, tillDate, tillNow, tillDelay, duration, startTime,
                   endTime, fixedDuration, srcTracks, srcIsLive, sources>>
    /\ UNCHANGED <<playerVars, paellaVars>>

-----------------------------------------------------------------------------
(* delayTill, for every date and every current time *)

Dates ==
    {Ms(0), Ms(499), Ms(500), Ms(1000), Ms(2000), Ms(MaxTimeout - 500),
     Ms(MaxTimeout - 499), Ms(MaxTimeout), Norm(3000, 0), Norm(5000, 0)}

Nows ==
    {Ms(0), Ms(1), Ms(500), Ms(999), Ms(1000), Ms(1001), Ms(1500), Ms(1501),
     Ms(3000), Norm(4000, 0)}

DelayIdle == tillDate = Zero /\ tillNow = Zero /\ tillDelay = Zero

CallDelayTill ==
    /\ purePc = "ready"
    /\ tillDelay' = delayTill(tillDate, tillNow)
    /\ purePc' = "done"
    /\ UNCHANGED <<timeString, seconds, tillDate, tillNow, duration, startTime,
                   endTime, fixedDuration, srcTracks, srcIsLive, sources>>
    /\ UNCHANGED <<playerVars, paellaVars>>

-----------------------------------------------------------------------------
(* The duration PaellaPlayer puts into the manifest.  A duration is a number *)
(* of seconds that need not be whole (diffMs / 1000), kept in thousandths.   *)

Seconds(n) == Ms(n * 1000)

\* diffMs / 1000, in thousandths of a second.
DivideBy1000(diffMs) == diffMs

Durations == {Seconds(0), Ms(500), Seconds(1), Seconds(2), Seconds(600)}

\* 2024-01-01T00:00:00Z, one millisecond and ten minutes later, a day before.
Timestamps ==
    {Null, Norm(1704067, 200000), Norm(1704067, 200001), Norm(1704067, 800000),
     Norm(1703980, 800000)}

\* JavaScript truthiness of a `string | null` timestamp prop.
Truthy(t) == t # Null

\* The duration without the replacement of 0 by 1.
FixedDuration_NoSentinel(d, st, en) ==
    IF d = Zero /\ Truthy(st) /\ Truthy(en)
    THEN DivideBy1000(Minus(en, st))
    ELSE d

FixedDuration(d, st, en) ==
    LET first == IF d = Zero /\ Truthy(st) /\ Truthy(en)
                 THEN DivideBy1000(Minus(en, st))
                 ELSE d
    IN  IF first = Zero THEN Seconds(1) ELSE first

DurationIdle ==
    duration = Zero /\ startTime = Null /\ endTime = Null /\ fixedDuration = Zero

CallFixedDuration ==
    /\ purePc = "ready"
    /\ fixedDuration' = FixedDuration(duration, startTime, endTime)
    /\ purePc' = "done"
    /\ UNCHANGED <<timeString, seconds, tillDate, tillNow, tillDelay, duration,
                   startTime, endTime, srcTracks, srcIsLive, sources>>
    /\ UNCHANGED <<playerVars, paellaVars>>

-----------------------------------------------------------------------------
(* tracksToPaellaSources.  A URI is a sequence of characters; a null       *)
(* mimetype, resolution or isMaster is the string "null", and isMaster is  *)
(* otherwise "true" or "false".  The flavor of a track is not read here.   *)

\* Bound on the number of tracks of one kind.
MaxTracks == 3

HlsMimetype == "application/x-mpegURL"

M3u8Suffix == <<".", "m", "3", "u", "8">>

\* "a.m3u8", "b.mp4" and "c.m3u8x"
Uris ==
    {<<"a", ".", "m", "3", "u", "8">>,
     <<"b", ".", "m", "p", "4">>,
     <<"c", ".", "m", "3", "u", "8", "x">>}

Tracks ==
    [uri : Uris, mimetype : {"null", HlsMimetype},
     resolution : {"null"}, isMaster : {"true", "false", "null"}]

TrackLists == UNION {[1..n -> Tracks] : n \in 0..MaxTracks}

\* String.prototype.endsWith
endsWith(str, suffix) ==
    /\ Len(suffix) <= Len(str)
    /\ SubSeq(str, Len(str) - Len(suffix) + 1, Len(str)) = suffix

isHlsTrack(t) ==
    t.mimetype = HlsMimetype \/ endsWith(t.uri, M3u8Suffix)

\* Number(isMaster): 1 for true, 0 for false and for null.
NumberOf(b) == IF b = "true" THEN 1 ELSE 0

\* The comparator with its operands swapped.
CompareMaster_Swapped(a, b) == NumberOf(a.isMaster) - NumberOf(b.isMaster)

\* (a, b) => Number(b.isMaster) - Number(a.isMaster)
CompareMaster(a, b) == NumberOf(b.isMaster) - NumberOf(a.isMaster)

\* A sorted list with x put behind every element that does not have to come
\* after it: the step of a stable sort.
RECURSIVE InsertSorted(_, _)
InsertSorted(sorted, x) ==
    IF sorted = <<>> THEN <<x>>
    ELSE LET last == sorted[Len(sorted)]
         IN  IF CompareMaster(last, x) <= 0
             THEN Append(sorted, x)
             ELSE Append(InsertSorted(SubSeq(sorted, 1, Len(sorted) - 1), x), last)

\* Array.prototype.sort with CompareMaster: a stable sort.
RECURSIVE SortByMaster(_)
SortByMaster(list) ==
    IF list = <<>> THEN <<>>
    ELSE InsertSorted(SortByMaster(SubSeq(list, 1, Len(list) - 1)), list[Len(list)])

\* Array.prototype.filter, by isHlsTrack or by its negation.
FilterHls(list, wanted) ==
    LET Keep(t) == isHlsTrack(t) = wanted
    IN  SelectSeq(list, Keep)

trackToSource(t) ==
    [src      |-> t.uri,
     mimetype |-> "video/mp4",
     res      |-> IF t.resolution = "null"
                  THEN [w |-> 0, h |-> 0]
                  ELSE [w |-> t.resolution[1], h |-> t.resolution[2]]]

\* Array.prototype.map with trackToSource
MapToSources(list) == [i \in 1..Len(list) |-> trackToSource(list[i])]

tracksToPaellaSources(list, live) ==
    LET hlsTracks == SortByMaster(FilterHls(list, TRUE))
        mp4Tracks == FilterHls(list, FALSE)
        hlsKey    == IF live THEN "hlsLive" ELSE "hls"
        keys      == (IF Len(mp4Tracks) > 0 THEN {"mp4"} ELSE {})
                       \cup (IF Len(hlsTracks) > 0 THEN {hlsKey} ELSE {})
    IN  [k \in keys |-> IF k = "mp4" THEN MapToSources(mp4Tracks)
                                     ELSE MapToSources(hlsTracks)]

SourcesIdle == srcTracks = <<>> /\ srcIsLive = FALSE /\ sources = <<>>

CallTracksToPaellaSources ==
    /\ purePc = "ready"
    /\ sources' = tracksToPaellaSources(srcTracks, srcIsLive)
    /\ purePc' = "done"
    /\ UNCHANGED <<timeString, seconds, tillDate, tillNow, tillDelay, duration,
                   startTime, endTime, fixedDuration, srcTracks, srcIsLive>>
    /\ UNCHANGED <<playerVars, paellaVars>>

-----------------------------------------------------------------------------
(* Specifications *)

PureIdle ==
    purePc = "idle" /\ TimeIdle /\ DelayIdle /\ DurationIdle /\ SourcesIdle

Init == PlayerInit /\ PaellaInit /\ PureIdle

TimeInit ==
    /\ PlayerInit /\ PaellaInit /\ DelayIdle /\ DurationIdle /\ SourcesIdle
    /\ purePc = "ready"
    /\ timeString \in TimeStrings
    /\ seconds = 0

DelayInit ==
    /\ PlayerInit /\ PaellaInit /\ TimeIdle /\ DurationIdle /\ SourcesIdle
    /\ purePc = "ready"
    /\ tillDate \in Dates
    /\ tillNow \in Nows
    /\ tillDelay = Zero

DurationInit ==
    /\ PlayerInit /\ PaellaInit /\ TimeIdle /\ DelayIdle /\ SourcesIdle
    /\ purePc = "ready"
    /\ duration \in Durations
    /\ startTime \in Timestamps
    /\ endTime \in Timestamps
    /\ fixedDuration = Zero

SourcesInit ==
    /\ PlayerInit /\ PaellaInit /\ TimeIdle /\ DelayIdle /\ DurationIdle
    /\ purePc = "ready"
    /\ srcTracks \in TrackLists
    /\ srcIsLive \in BOOLEAN
    /\ sources = <<>>

SourcesSpec == SourcesInit /\ [][CallTracksToPaellaSources]_vars

TimeSpec == TimeInit /\ [][CallTimeStringToSeconds]_vars

DelaySpec == DelayInit /\ [][CallDelayTill]_vars

DurationSpec == DurationInit /\ [][CallFixedDuration]_vars

PlayerSpec == Init /\ [][PlayerNext]_vars

PaellaSpec == Init /\ [][PaellaNext]_vars

\* Promise reactions are jobs of the microtask queue, which the event loop
\* drains after every task: a reaction that is ready runs, however often
\* a synchronous cleanup-and-effect flush comes in between.  The effect body
\* follows its cleanup in the same synchronous flush.
PaellaLiveSpec ==
    /\ PaellaSpec
    /\ WF_vars(\E r \in BOOLEAN : PEffect(r))
    /\ \A i \in Engines : SF_vars(RunReaction(i))

-----------------------------------------------------------------------------
(* Claims about Player *)

KindPending(kind) == \E t \in timers : t.kind = kind

\* C1: the notifier is invoked exactly once for each transition of the shell
\* into or out of PENDING or ENDED, and never by a timer firing that leaves
\* the boundary state unchanged.  Stated as what both halves require of every
\* state: the invocations so far never exceed the transitions rendered so
\* far, plus one when the boundary state at the current time differs from
\* the rendered one (the transition whose render is still to come).
C1_NotifierOncePerTransition ==
    pc # "unmounted" =>
        notified <= transitions
                      + (IF BoundaryState(event, now) # view THEN 1 ELSE 0)

\* C2: the live placeholder is rendered exactly when the event is live and
\* (hasStarted is false or hasEnded is true), in mode pending when hasStarted
\* is false and in mode ended otherwise; every other case delegates to the
\* playback engine: a non-live event always, and a live event whose start is
\* unknown and which has not ended.
C2_RenderBranch ==
    pc # "unmounted" =>
        /\ view \in {"pending", "ended", "player"}
        /\ (view # "player") <=>
               (event.isLive /\ (hasStarted = "false" \/ hasEnded = "true"))
        /\ (view = "pending") <=> (event.isLive /\ hasStarted = "false")
        /\ ~event.isLive => view = "player"
        /\ (event.isLive /\ hasStarted = "unknown" /\ hasEnded # "true")
               => view = "player"

C2_Witness ==
    /\ pc = "idle"
    /\ event.isLive
    /\ hasStarted = "unknown"
    /\ hasEnded = "false"
    /\ view = "player"

\* C7: every evaluation cancels the timers of the one before: at most one
\* start-transition timer and at most one end-transition timer are pending at
\* any time, none remains after unmount, every pending timer belongs to the
\* latest effect, and an evaluation that saw no state change schedules as
\* many timers as the one before it.
C7_State ==
    /\ Cardinality({t \in timers : t.kind = "start"}) <= 1
    /\ Cardinality({t \in timers : t.kind = "end"}) <= 1
    /\ pc = "unmounted" => timers = {}
    /\ pc = "idle" => \A t \in timers : \E i \in 1..Len(handles) : handles[i] = t.id

C7_Step ==
    (pc = "rendered" /\ pc' = "idle" /\ unchanged) =>
        /\ Len(handles') = Len(handles)
        /\ Cardinality(timers') = Len(handles')

\* C7: no duplicate timers: C7_State in every state, C7_Step on every step.
C7_NoDuplicateTimers == [](C7_State) /\ [][C7_Step]_vars

C7_Witness ==
    /\ pc = "idle"
    /\ unchanged
    /\ Cardinality(timers) = 2
    /\ nextHandle >= 5

\* C8: after each evaluation a start-transition timer is pending iff the event
\* is live and hasStarted is false, and an end-transition timer iff the event
\* is live and hasEnded is false; no timer is scheduled for a non-live event
\* or for a flag that is true or unknown.
C8_TimersMatchFlags ==
    pc = "idle" =>
        /\ \A t \in timers :
              /\ event.isLive
              /\ t.kind = "start" => hasStarted = "false"
              /\ t.kind = "end" => hasEnded = "false"
        /\ ~rerenderRequested =>
              /\ KindPending("start") <=> (event.isLive /\ hasStarted = "false")
              /\ KindPending("end") <=> (event.isLive /\ hasEnded = "false")

C8_Witness ==
    /\ pc = "idle"
    /\ ~rerenderRequested
    /\ event.isLive
    /\ hasStarted = "true"
    /\ hasEnded = "false"
    /\ KindPending("end")
    /\ ~KindPending("start")

-----------------------------------------------------------------------------
(* Claims about PaellaPlayer *)

Created(i) == load[i] # "none"

\* Engine instances created and not yet unloaded.
LiveEngines == {i \in Engines : Created(i) /\ unloaded[i] = 0}

\* C3: player.unload() is never called before that instance's loadPromise
\* has settled; a cleanup that runs while loading is in flight only defers
\* the unload.
C3_UnloadAfterLoadSettled ==
    \A i \in Engines :
        /\ unloaded[i] > 0 => load[i] \in {"resolved", "rejected"}
        /\ load[i] = "pending" => unloaded[i] = 0

C3_Witness ==
    \E i, j \in Engines :
        /\ unloaded[i] = 1
        /\ load[j] = "pending"
        /\ scheduled[j] = 1
        /\ paella # j

\* C4, as claimed: at most one engine instance that has been created and not
\* yet unloaded exists at any time.
C4_AtMostOneLiveEngine == Cardinality(LiveEngines) <= 1

\* C4, amended: the current-engine slot holds at most one instance, and an
\* instance is in the slot exactly as long as no unload has been scheduled
\* for it: every other created instance has been superseded and its teardown
\* scheduled, though it may still be loading or waiting for its unload.
C4_AtMostOneHeldEngine ==
    /\ \A i \in Engines :
          Created(i) => ((paella = i) <=> (scheduled[i] = 0))
    /\ Cardinality({i \in Engines : Created(i) /\ scheduled[i] = 0}) <= 1
    /\ paella # NoEngine => Created(paella)

C4_Witness ==
    /\ Cardinality(LiveEngines) >= 2
    /\ paella # NoEngine
    /\ \E i \in Engines : i # paella /\ load[i] = "pending" /\ scheduled[i] = 1

\* C5: an unmount or an effect re-run while an engine instance is held clears
\* the slot synchronously and calls no unload synchronously; the superseded
\* instance is unloaded at most once, and once its load future has resolved
\* it is eventually unloaded.
C5_CleanupStep ==
    (ppc = "idle" /\ ppc' \in {"cleaned", "unmounted"} /\ paella # NoEngine) =>
        /\ paella' = NoEngine
        /\ unloaded' = unloaded
        /\ scheduled'[paella] = 1

\* C5: the cleanup clears the slot and defers the unload (C5_CleanupStep on
\* every step); each instance is unloaded at most once, and eventually once
\* its unload is scheduled and its load future has resolved.
C5_DeferredUnload ==
    /\ [][C5_CleanupStep]_vars
    /\ [](\A i \in Engines : unloaded[i] <= 1)
    /\ \A i \in Engines :
          (scheduled[i] > 0 /\ load[i] = "resolved") ~> (unloaded[i] = 1)

C5_Witness ==
    \E i \in Engines :
        /\ scheduled[i] = 1
        /\ load[i] = "resolved"
        /\ unloaded[i] = 1
        /\ ppc = "unmounted"

-----------------------------------------------------------------------------
(* Claims about the pure functions *)

IsDigits(q) == Len(q) >= 1 /\ \A k \in 1..Len(q) : q[k] \in Digits

\* q is empty or of the form <N><unit>.
IsOptionalGroup(q, unit) ==
    \/ q = <<>>
    \/ /\ Len(q) >= 2
       /\ q[Len(q)] = unit
       /\ IsDigits(SubSeq(q, 1, Len(q) - 1))

GroupNumber(q) == IF q = <<>> THEN 0 ELSE parseInt(SubSeq(q, 1, Len(q) - 1))

\* The ways to cut str into an hours, a minutes and a seconds group.
Cuts(str) ==
    {c \in (0..Len(str)) \X (0..Len(str)) :
        /\ c[1] <= c[2]
        /\ IsOptionalGroup(SubSeq(str, 1, c[1]), "h")
        /\ IsOptionalGroup(SubSeq(str, c[1] + 1, c[2]), "m")
        /\ IsOptionalGroup(SubSeq(str, c[2] + 1, Len(str)), "s")}

\* str is of the form (<N>h)?(<N>m)?(<N>s)?
WellFormed(str) == Cuts(str) # {}

SecondsOf(str) ==
    LET c == CHOOSE c \in Cuts(str) : TRUE
    IN  3600 * GroupNumber(SubSeq(str, 1, c[1]))
          + 60 * GroupNumber(SubSeq(str, c[1] + 1, c[2]))
          + GroupNumber(SubSeq(str, c[2] + 1, Len(str)))

\* C6: timeStringToSeconds returns 3600*h + 60*m + s for every string of the
\* form (<N>h)?(<N>m)?(<N>s)?, absent groups contributing 0, and 0 for the
\* empty string and for every string not of that form.
C6_WellFormedOrZero ==
    purePc = "done" =>
        seconds = IF WellFormed(timeString) THEN SecondsOf(timeString) ELSE 0

Raw == Plus(Minus(tillDate, tillNow), Ms(GraceMs))

\* C9, as claimed: delayTill returns max(0, target - now + 500) when that is
\* at most 2,147,483,647 and 2,147,483,647 otherwise, so never a negative
\* number.
C9_ClampedBothWays ==
    purePc = "done" =>
        tillDelay = IF Leq(Max(Zero, Raw), Ms(MaxTimeout))
                    THEN Max(Zero, Raw)
                    ELSE Ms(MaxTimeout)

\* C9, amended: delayTill returns target - now + 500 when that is at most
\* 2,147,483,647 and 2,147,483,647 otherwise; the result is never larger than
\* 2^31-1, equals max(0, target - now + 500) clamped whenever the target is at
\* most 500 ms in the past, and is negative exactly when the target is more
\* than 500 ms in the past.
C9_ClampedAbove ==
    purePc = "done" =>
        /\ Leq(tillDelay, Ms(MaxTimeout))
        /\ Leq(Raw, Ms(MaxTimeout)) => tillDelay = Raw
        /\ Less(Ms(MaxTimeout), Raw) => tillDelay = Ms(MaxTimeout)
        /\ Leq(tillNow, Plus(tillDate, Ms(GraceMs))) =>
              /\ Leq(Zero, tillDelay)
              /\ tillDelay = Min(Max(Zero, Raw), Ms(MaxTimeout))
        /\ Less(Plus(tillDate, Ms(GraceMs)), tillNow) <=> Less(tillDelay, Zero)

C9_Witness ==
    /\ purePc = "done"
    /\ Less(Plus(tillDate, Ms(GraceMs)), tillNow)
    /\ Less(tillDelay, Zero)

\* C10: the manifest duration is the nominal duration when that is non-zero;
\* when it is 0 and both timestamps are present it is (end - start) in
\* seconds; when the result is still 0 (a timestamp missing, or start equal
\* to end) it is 1.  It is never 0.
C10_DurationNeverZero ==
    purePc = "done" =>
        /\ duration # Zero => fixedDuration = duration
        /\ (duration = Zero /\ startTime # Null /\ endTime # Null
                /\ startTime # endTime)
              => fixedDuration = Minus(endTime, startTime)
        /\ (duration = Zero
                /\ (startTime = Null \/ endTime = Null \/ startTime = endTime))
              => fixedDuration = Seconds(1)
        /\ fixedDuration # Zero

C10_Witness ==
    /\ purePc = "done"
    /\ duration = Zero
    /\ startTime # Null
    /\ startTime = endTime
    /\ fixedDuration = Seconds(1)

-----------------------------------------------------------------------------
(* Claims about tracksToPaellaSources *)

\* A track that belongs under the segmented key: its mimetype is
\* "application/x-mpegURL" or its URI is something followed by ".m3u8".
IsSegmented(t) ==
    \/ t.mimetype = "application/x-mpegURL"
    \/ \E n \in 0..Len(t.uri) :
           t.uri = SubSeq(t.uri, 1, n) \o <<".", "m", "3", "u", "8">>

SegmentedAt == {i \in 1..Len(srcTracks) : IsSegmented(srcTracks[i])}

PlainAt == (1..Len(srcTracks)) \ SegmentedAt

IsMasterAt(i) == srcTracks[i].isMaster = "true"

\* Track j has to stand before track i in the segmented list.
MasterFirst(j, i) ==
    \/ IsMasterAt(j) /\ ~IsMasterAt(i)
    \/ IsMasterAt(j) = IsMasterAt(i) /\ j < i

\* The list `list` holds exactly the tracks at the positions `at`, the one
\* of position i behind as many others as Before(_, i) names.
HoldsInOrder(list, at, Before(_, _)) ==
    /\ Len(list) = Cardinality(at)
    /\ \A i \in at :
           list[Cardinality({j \in at : Before(j, i)}) + 1]
               = trackToSource(srcTracks[i])

InputOrder(j, i) == j < i

\* C11: once tracksToPaellaSources has returned, the result has the key
\* "mp4" exactly if some track is not segmented and the segmented key
\* ("hlsLive" if live, "hls" otherwise) exactly if some track is, and no other
\* key; "mp4" lists the tracks that are not segmented in input order; the
\* segmented key lists the segmented tracks, every track with isMaster true
\* before every track with isMaster false or null, tracks of equal master
\* status in input order.
C11_SourcesByKind ==
    purePc = "done" =>
        LET segmentedKey == IF srcIsLive THEN "hlsLive" ELSE "hls"
        IN  /\ DOMAIN sources \subseteq {"mp4", segmentedKey}
            /\ ("mp4" \in DOMAIN sources) <=> (PlainAt # {})
            /\ (segmentedKey \in DOMAIN sources) <=> (SegmentedAt # {})
            /\ PlainAt # {} => HoldsInOrder(sources["mp4"], PlainAt, InputOrder)
            /\ SegmentedAt # {} =>
                   HoldsInOrder(sources[segmentedKey], SegmentedAt, MasterFirst)

\* A live event with three tracks: a segmented track by URI only that is not
\* a master, a track whose URI only contains ".m3u8", and a master playlist by
\* mimetype only; the master has been moved to the front.
C11_Witness ==
    /\ purePc = "done"
    /\ srcIsLive
    /\ Len(srcTracks) = 3
    /\ srcTracks[1].mimetype = "null" /\ srcTracks[1].isMaster = "null"
    /\ srcTracks[1].uri = <<"a", ".", "m", "3", "u", "8">>
    /\ srcTracks[2].mimetype = "null"
    /\ srcTracks[2].uri = <<"c", ".", "m", "3", "u", "8", "x">>
    /\ srcTracks[3].mimetype = HlsMimetype /\ srcTracks[3].isMaster = "true"
    /\ srcTracks[3].uri = <<"b", ".", "m", "p", "4">>
    /\ DOMAIN sources = {"mp4", "hlsLive"}
    /\ Len(sources["hlsLive"]) = 2
    /\ sources["hlsLive"][1].src = srcTracks[3].uri
    /\ sources["hlsLive"][2].src = srcTracks[1].uri
    /\ sources["mp4"] = <<trackToSource(srcTracks[2])>>

====
